---- MODULE Spec2Model ----
(***************************************************************************)
(* A model of sunpy/util/decorators.py (the deprecation decorator and the  *)
(* docstring composer) and of the constants registry exercised by          *)
(* sunpy/sun/tests/test_constants.py.                                      *)
(*                                                                         *)
(* A Python str is modelled as a Text: a sequence of tokens, each token a  *)
(* TLA+ string standing for an indivisible piece of text.  A version       *)
(* string is a Text of one-character tokens, so that split('.') and int()  *)
(* are computed character by character.  A format placeholder such as      *)
(* {func} is one token.                                                    *)
(***************************************************************************)
EXTENDS Integers, Sequences, FiniteSets, TLC

VARIABLES
    dargs,      \* the arguments of the pending call deprecated(since, ...)
    decorator,  \* what deprecated(...) produced: the closure `deprecate` or an error
    target,     \* the object the decorator is applied to
    artifact,   \* what deprecate(obj) produced: the wrapped artifact or an error
    original,   \* a copy of the target as it was before decoration
    trace,      \* the events of the latest invocation / instantiation
    outcome,    \* the result of the latest invocation / instantiation
    expected,   \* the result of the undecorated original on the same arguments
    call,       \* the arguments of the latest invocation / instantiation
    ncalls,     \* invocations / instantiations so far
    nwarns,     \* warnings emitted so far
    built,      \* the arguments the add_common_docstring instance was built with
    composer,   \* the add_common_docstring instance (append, prepend, kwargs)
    docs,       \* the documentation of each callable the composer may be applied to
    applied,    \* the latest composer application: callable, error, documentation before
    napplied,   \* composer applications so far
    query,      \* the latest registry query
    answer      \* the latest registry answer

vars == <<dargs, decorator, target, artifact, original, trace, outcome, expected,
          call, ncalls, nwarns, built, composer, docs, applied, napplied,
          query, answer>>

depVars == <<dargs, decorator, target, artifact, original, trace, outcome, expected,
             call, ncalls, nwarns>>
docVars == <<built, composer, docs, applied, napplied>>
regVars == <<query, answer>>

(***************************************************************************)
(* Bounds.                                                                 *)
(***************************************************************************)
MaxSinceLen == 4    \* longest version string tried by SpecVersion
MaxCalls == 2       \* invocations of one wrapped artifact
MaxArgs == 1        \* positional arguments of one invocation
MaxApply == 3       \* applications of one docstring composer
MaxQueryLen == 3    \* longest registry query

(***************************************************************************)
(* Text helpers.                                                           *)
(***************************************************************************)
None == <<"<None>">>      \* Python's None where a str is optional
Empty == <<>>             \* the empty str ''

Truthy(s) == s # None /\ s # Empty

SeqsUpTo(S, n) == UNION {[1..k -> S] : k \in 0..n}

DigitChars == <<"0", "1", "2", "3", "4", "5", "6", "7", "8", "9">>

IsDigit(c) == \E d \in 1..Len(DigitChars) : DigitChars[d] = c

DigitVal(c) == (CHOOSE d \in 1..Len(DigitChars) : DigitChars[d] = c) - 1

\* int(s) succeeds on a non-empty run of decimal digits
IsInt(s) == Len(s) > 0 /\ \A i \in 1..Len(s) : IsDigit(s[i])

RECURSIVE IntOf(_)
IntOf(s) == IF Len(s) = 0 THEN 0
            ELSE 10 * IntOf(SubSeq(s, 1, Len(s) - 1)) + DigitVal(s[Len(s)])

\* f"{n}" for a natural number n
RECURSIVE Str(_)
Str(n) == IF n < 10 THEN <<DigitChars[n + 1]>>
          ELSE Str(n \div 10) \o <<DigitChars[(n % 10) + 1]>>

\* s.split(sep): the pieces of s between occurrences of the one-token separator
RECURSIVE Split(_, _)
Split(s, sep) ==
    IF \A i \in 1..Len(s) : s[i] # sep THEN <<s>>
    ELSE LET i == CHOOSE j \in 1..Len(s) :
                      s[j] = sep /\ \A k \in 1..(j - 1) : s[k] # sep
         IN  <<SubSeq(s, 1, i - 1)>> \o Split(SubSeq(s, i + 1, Len(s)), sep)

Take(s, n) == SubSeq(s, 1, IF Len(s) < n THEN Len(s) ELSE n)

(***************************************************************************)
(* get_removal_version(since)                                              *)
(***************************************************************************)
VersionError == [err |-> "ValueError", major |-> 0, minor |-> 0]

Version(ma, mi) == [err |-> "", major |-> ma, minor |-> mi]

get_removal_version(since) ==
    LET parts == Take(Split(since, "."), 2) IN
    IF Len(parts) # 2 THEN VersionError            \* unpacking into two names
    ELSE LET since_major == parts[1]
             since_minor == parts[2]
             since_lts == since_minor = <<"0">>     \* a comparison of strings
         IN  IF since_lts
             THEN IF IsInt(since_major) /\ IsInt(since_minor)
                  THEN Version(IntOf(since_major), IntOf(since_minor) + 1)
                  ELSE VersionError
             ELSE IF IsInt(since_major)             \* since_minor is never parsed
                  THEN Version(IntOf(since_major) + 1, 1)
                  ELSE VersionError

(***************************************************************************)
(* Python objects.  A function object carries its body (which code runs),  *)
(* its __name__ and __doc__, and, when it is a deprecated_func closure,    *)
(* the message and the pending flag the closure captured.                  *)
(***************************************************************************)
FuncObj(body, name, doc) ==
    [body |-> body, name |-> name, doc |-> doc,
     wrapped |-> FALSE, message |-> Empty, pending |-> FALSE]

NoFunc == FuncObj("none", None, None)

\* object.__new__ and object.__init__ are slot wrappers of the interpreter
ObjectNew == FuncObj("object.__new__", <<"__new__">>, <<"Create and return a new object.">>)
ObjectInit == FuncObj("object.__init__", <<"__init__">>, <<"Initialize self.">>)

PyObj(kind, func, new, init, cname, cdoc) ==
    [kind |-> kind, func |-> func, new |-> new, init |-> init,
     cname |-> cname, cdoc |-> cdoc]

NoObj == PyObj("none", NoFunc, NoFunc, NoFunc, None, None)

Function(body, name, doc) ==
    PyObj("function", FuncObj(body, name, doc), NoFunc, NoFunc, None, None)

\* classmethod(f), staticmethod(f) or a bound method of f: kind names the wrapper type
Method(kind, body, name, doc) ==
    PyObj(kind, FuncObj(body, name, doc), NoFunc, NoFunc, None, None)

Class(cname, cdoc, new, init) == PyObj("class", NoFunc, new, init, cname, cdoc)

\* neither a callable nor a class: name is None when the object has no __name__
NonCallable(name) ==
    PyObj("object", FuncObj("not_callable", name, <<"int([x]) -> integer">>),
          NoFunc, NoFunc, None, None)

method_types == {"classmethod", "staticmethod", "method"}

(***************************************************************************)
(* The bodies of the original functions, as Python runs them.              *)
(***************************************************************************)
Return(v) == [kind |-> "return", val |-> v]
Raise(e) == [kind |-> "raise", val |-> <<e>>]

\* the class and the instance a constructor body runs on
Ctx(cls, inst) == [cls |-> cls, inst |-> inst]

NoCtx == Ctx(NoObj, Empty)

Excess(args, kwargs) == Len(args) > 0 \/ Len(kwargs) > 0

NewBody(cls, args, kwargs) ==
    CASE cls.new.body = "object.__new__" ->
             IF Excess(args, kwargs) /\ cls.init = ObjectInit
             THEN Raise("TypeError") ELSE Return(<<"instance">>)
      [] cls.new.body = "user_new" ->
             Return(<<"instance", "new:">> \o args \o <<"|">> \o kwargs)
      [] OTHER -> Return(<<"foreign">>)

InitBody(cls, inst, args, kwargs) ==
    CASE cls.init.body = "object.__init__" ->
             IF Excess(args, kwargs) /\ (cls.init # ObjectInit \/ cls.new = ObjectNew)
             THEN Raise("TypeError") ELSE Return(inst)
      [] OTHER -> Return(inst \o <<"init:">> \o args \o <<"|">> \o kwargs)

Apply(ctx, body, args, kwargs) ==
    CASE body = "echo" -> Return(args \o <<"|">> \o kwargs)
      [] body = "first" -> IF Len(args) = 0 \/ Len(kwargs) > 0
                           THEN Raise("TypeError") ELSE Return(<<args[1]>>)
      [] body = "fail" -> Raise("ValueError")
      [] body \in {"object.__new__", "user_new", "foreign_new"} ->
             NewBody(ctx.cls, args, kwargs)
      [] body \in {"object.__init__", "user_init"} ->
             InitBody(ctx.cls, ctx.inst, args, kwargs)
      [] OTHER -> Raise("TypeError")      \* not callable

WarnEv(message, category) ==
    [ev |-> "warn", what |-> category, text |-> message, args |-> <<>>, kwargs |-> <<>>]

BodyEv(body, args, kwargs) ==
    [ev |-> "body", what |-> body, text |-> <<>>, args |-> args, kwargs |-> kwargs]

warning_type == "SunpyDeprecationWarning"
pending_warning_type == "SunpyPendingDeprecationWarning"

(***************************************************************************)
(* deprecated(since, ...) and the closure _deprecated returns.             *)
(***************************************************************************)
Closure(err, since, message, name, alternative, pending, removal_version, obj_type) ==
    [err |-> err, since |-> since, message |-> message, name |-> name,
     alternative |-> alternative, pending |-> pending,
     removal_version |-> removal_version, obj_type |-> obj_type]

NoClosure == Closure("undefined", Empty, Empty, Empty, Empty, FALSE, None, None)

ClosureError(e) == Closure(e, Empty, Empty, Empty, Empty, FALSE, None, None)

\* message is a str here: the branch for a function passed as message is not taken
_deprecated(since, message, name, alternative, pending, removal_version, obj_type) ==
    Closure("", since, message, name, alternative, pending, removal_version, obj_type)

deprecated(since, message, name, alternative, pending, obj_type) ==
    LET v == get_removal_version(since) IN
    IF v.err # "" THEN ClosureError(v.err)
    ELSE LET removal_version == Str(v.major) \o <<".">> \o Str(v.minor)
         IN  _deprecated(since, message, name, alternative, pending,
                         removal_version, obj_type)

(***************************************************************************)
(* deprecate_doc                                                           *)
(***************************************************************************)
Whitespace == {" ", "\n"}

RECURSIVE LStrip(_, _)
LStrip(s, chars) == IF Len(s) > 0 /\ s[1] \in chars THEN LStrip(Tail(s), chars) ELSE s

RECURSIVE RStrip(_, _)
RStrip(s, chars) ==
    IF Len(s) > 0 /\ s[Len(s)] \in chars
    THEN RStrip(SubSeq(s, 1, Len(s) - 1), chars) ELSE s

Strip(s, chars) == RStrip(LStrip(s, chars), chars)

\* the documentation tokens of the model carry no common indentation for
\* textwrap.dedent to remove
deprecate_doc(since, old_doc_in, message) ==
    LET old_doc == Strip(IF Truthy(old_doc_in) THEN old_doc_in ELSE Empty, {"\n"})
        new_doc == <<"\n.. deprecated:: ">> \o since \o <<"\n    ">>
                   \o Strip(message, Whitespace) \o <<"\n\n">> \o old_doc
    IN  IF old_doc = Empty THEN new_doc \o <<"\\ ">> ELSE new_doc

(***************************************************************************)
(* deprecate_function and the closure deprecated_func                      *)
(***************************************************************************)
Result(err, obj) == [err |-> err, obj |-> obj]

NoResult == Result("undefined", NoObj)

\* the function behind a method wrapper, else the object itself; for a class
\* (returned as it is) only the __name__ is used, see get_function_name
get_function(obj) == IF obj.kind = "class" THEN NoFunc ELSE obj.func

\* the __name__ of get_function(obj): a class is returned unchanged
get_function_name(obj) == IF obj.kind = "class" THEN obj.cname ELSE obj.func.name

is_wrapper_descriptor(func) == func.body = "object.__init__"

\* the closure built at lines 132-150: functools.wraps copies __name__ and
\* __doc__ where the wrapped object has them
make_deprecated_func(c, func, message) ==
    LET wraps == ~is_wrapper_descriptor(func)
        name == IF wraps /\ func.name # None THEN func.name ELSE <<"deprecated_func">>
        doc == IF wraps THEN func.doc ELSE None
    IN  [body |-> func.body, name |-> name,
         doc |-> deprecate_doc(c.since, doc, message),
         wrapped |-> TRUE, message |-> message, pending |-> c.pending]

\* func_wrapper(deprecated_func): types.MethodType takes two arguments
func_wrapper(kind, deprecated_func) ==
    IF kind = "method" THEN Result("TypeError", NoObj)
    ELSE IF kind \in method_types
         THEN Result("", PyObj(kind, deprecated_func, NoFunc, NoFunc, None, None))
         ELSE Result("", PyObj("function", deprecated_func, NoFunc, NoFunc, None, None))

deprecate_function(c, obj, message) ==
    func_wrapper(obj.kind, make_deprecated_func(c, get_function(obj), message))

\* faulty variant: the closure ignores pending and always warns with warning_type
deprecated_func_always_hard(ctx, f, args, kwargs) ==
    [trace |-> <<WarnEv(f.message, warning_type), BodyEv(f.body, args, kwargs)>>,
     outcome |-> Apply(ctx, f.body, args, kwargs)]

\* faulty variant: the closure forwards the positional arguments only
deprecated_func_drop_kwargs(ctx, f, args, kwargs) ==
    LET category == IF f.pending THEN pending_warning_type ELSE warning_type
    IN  [trace |-> <<WarnEv(f.message, category), BodyEv(f.body, args, <<>>)>>,
         outcome |-> Apply(ctx, f.body, args, <<>>)]

\* one run of the closure: the warning, then the original
deprecated_func(ctx, f, args, kwargs) ==
    LET category == IF f.pending THEN pending_warning_type ELSE warning_type
    IN  [trace |-> <<WarnEv(f.message, category), BodyEv(f.body, args, kwargs)>>,
         outcome |-> Apply(ctx, f.body, args, kwargs)]

CallFunc(ctx, f, args, kwargs) ==
    IF f.wrapped THEN deprecated_func(ctx, f, args, kwargs)
    ELSE [trace |-> <<BodyEv(f.body, args, kwargs)>>,
          outcome |-> Apply(ctx, f.body, args, kwargs)]

(***************************************************************************)
(* deprecate_class                                                         *)
(***************************************************************************)
AsFunction(f) == PyObj("function", f, NoFunc, NoFunc, None, None)

\* faulty variant: __init__ is always wrapped, and __new__ too when it is overridden
deprecate_class_both(c, cls, message) ==
    LET doc == deprecate_doc(c.since, cls.cdoc, message)
        init == deprecate_function(c, AsFunction(cls.init), message).obj.func
    IN  IF cls.new = ObjectNew
        THEN Class(cls.cname, doc, cls.new, init)
        ELSE Class(cls.cname, doc,
                   deprecate_function(c, AsFunction(cls.new), message).obj.func,
                   init)

deprecate_class(c, cls, message) ==
    LET doc == deprecate_doc(c.since, cls.cdoc, message) IN
    IF cls.new = ObjectNew
    THEN Class(cls.cname, doc, cls.new,
               deprecate_function(c, AsFunction(cls.init), message).obj.func)
    ELSE Class(cls.cname, doc,
               deprecate_function(c, AsFunction(cls.new), message).obj.func,
               cls.init)

(***************************************************************************)
(* deprecate(obj): the decorator itself                                    *)
(***************************************************************************)
Placeholders == {"{func}", "{name}", "{deprecated_version}", "{future_version}",
                 "{alternative}", "{obj_type}", "{x}", "{y}"}

\* str.format(**mapping): every placeholder token must have a value
CanFormat(tmpl, mapping) ==
    \A i \in 1..Len(tmpl) : tmpl[i] \in Placeholders => tmpl[i] \in DOMAIN mapping

RECURSIVE Format(_, _)
Format(tmpl, mapping) ==
    IF Len(tmpl) = 0 THEN Empty
    ELSE (IF tmpl[1] \in DOMAIN mapping THEN mapping[tmpl[1]] ELSE <<tmpl[1]>>)
         \o Format(Tail(tmpl), mapping)

PendingTemplate ==
    <<"The ", "{func}", " ", "{obj_type}", " will be deprecated in version ",
      "{deprecated_version}", ".">>

DeprecatedTemplate ==
    <<"The ", "{func}", " ", "{obj_type}", " is deprecated and may be removed in ",
      "{future_version}", ".">>

AltClause(alternative) == <<"\n        Use ">> \o alternative \o <<" instead.">>

obj_type_name_of(c, obj) ==
    IF c.obj_type = None
    THEN CASE obj.kind = "class" -> <<"class">>
           [] obj.kind = "function" -> <<"function">>
           [] obj.kind \in method_types -> <<"method">>
           [] OTHER -> <<"object">>
    ELSE c.obj_type

\* faulty variant: the alternative clause is appended to a custom message too
deprecation_message_alt_always(c, name, obj_type_name) ==
    LET default == ~Truthy(c.message)
        template == IF default
                    THEN (IF c.pending THEN PendingTemplate ELSE DeprecatedTemplate)
                    ELSE c.message
        altmessage == IF Truthy(c.alternative)
                      THEN AltClause(c.alternative) ELSE Empty
        future_version == IF c.removal_version = None THEN <<"a future version">>
                          ELSE <<"version ">> \o c.removal_version
        mapping == [k \in {"{func}", "{name}", "{deprecated_version}",
                           "{future_version}", "{alternative}", "{obj_type}"} |->
                      CASE k = "{func}" -> name
                        [] k = "{name}" -> name
                        [] k = "{deprecated_version}" -> c.since
                        [] k = "{future_version}" -> future_version
                        [] k = "{alternative}" -> c.alternative
                        [] OTHER -> obj_type_name]
    IN  IF CanFormat(template, mapping)
        THEN [err |-> "", text |-> Format(template, mapping) \o altmessage]
        ELSE [err |-> "KeyError", text |-> Empty]

deprecation_message(c, name, obj_type_name) ==
    LET default == ~Truthy(c.message)
        template == IF default
                    THEN (IF c.pending THEN PendingTemplate ELSE DeprecatedTemplate)
                    ELSE c.message
        altmessage == IF default /\ Truthy(c.alternative)
                      THEN AltClause(c.alternative) ELSE Empty
        future_version == IF c.removal_version = None THEN <<"a future version">>
                          ELSE <<"version ">> \o c.removal_version
        mapping == [k \in {"{func}", "{name}", "{deprecated_version}",
                           "{future_version}", "{alternative}", "{obj_type}"} |->
                      CASE k = "{func}" -> name
                        [] k = "{name}" -> name
                        [] k = "{deprecated_version}" -> c.since
                        [] k = "{future_version}" -> future_version
                        [] k = "{alternative}" -> c.alternative
                        [] OTHER -> obj_type_name]
    IN  IF CanFormat(template, mapping)
        THEN [err |-> "", text |-> Format(template, mapping) \o altmessage]
        ELSE [err |-> "KeyError", text |-> Empty]

deprecate(c, obj) ==
    LET obj_type_name == obj_type_name_of(c, obj)
        derived == ~Truthy(c.name)
        name == IF derived THEN get_function_name(obj) ELSE c.name
    IN  IF derived /\ name = None THEN Result("AttributeError", NoObj)
        ELSE LET m == deprecation_message(c, name, obj_type_name) IN
             IF m.err # "" THEN Result(m.err, NoObj)
             ELSE IF obj.kind = "class"
                  THEN Result("", deprecate_class(c, obj, m.text))
                  ELSE deprecate_function(c, obj, m.text)

(***************************************************************************)
(* Instantiation of a class, as the interpreter's type.__call__ runs it:   *)
(* cls.__new__(cls, *args, **kwargs), then __init__ on the new object when *)
(* __new__ returned an instance of cls.                                    *)
(***************************************************************************)
type_call(cls, args, kwargs) ==
    LET n == CallFunc(Ctx(cls, Empty), cls.new, args, kwargs) IN
    IF n.outcome.kind = "raise" \/ n.outcome.val = <<"foreign">>
    THEN n
    ELSE LET i == CallFunc(Ctx(cls, n.outcome.val), cls.init, args, kwargs)
         IN  [trace |-> n.trace \o i.trace, outcome |-> i.outcome]

(***************************************************************************)
(* Inputs.                                                                 *)
(***************************************************************************)
DArgs(since, message, name, alternative, pending, obj_type) ==
    [since |-> since, message |-> message, name |-> name,
     alternative |-> alternative, pending |-> pending, obj_type |-> obj_type]

SinceAlphabet == {"0", "1", "9", ".", "x"}

\* every version string up to MaxSinceLen characters, with the other arguments defaulted
VersionArgs ==
    {DArgs(s, Empty, Empty, Empty, FALSE, None) : s \in SeqsUpTo(SinceAlphabet, MaxSinceLen)}

CustomMessage == <<"Stop using ", "{func}", ".">>
BadMessage == <<"Stop using ", "{x}", ".">>

DeprecateArgs ==
    {DArgs(s, m, n, a, p, t) :
        s \in {<<"1", ".", "0">>, <<"1", ".", "3">>, <<"1", ".", "x">>, <<"1", "0">>},
        m \in {Empty, CustomMessage, BadMessage},
        n \in {Empty, <<"old_name">>},
        a \in {Empty, <<"new_api">>},
        p \in BOOLEAN,
        t \in {None, <<"routine">>}}

UserNew == FuncObj("user_new", <<"__new__">>, None)
ForeignNew == FuncObj("foreign_new", <<"__new__">>, None)
UserInit == FuncObj("user_init", <<"__init__">>, <<"Set up.">>)

Targets ==
    {Function("echo", <<"f">>, None),
     Function("first", <<"g">>, <<"\n", "Return the first argument.", "\n">>),
     Function("fail", <<"h">>, <<"Always fails.">>),
     Method("classmethod", "echo", <<"cm">>, None),
     Method("staticmethod", "echo", <<"sm">>, None),
     Method("method", "echo", <<"bm">>, None),
     NonCallable(None),
     NonCallable(<<"mod">>)}
    \cup {Class(<<"C">>, d, n, i) :
            d \in {None, <<"A class.">>},
            n \in {ObjectNew, UserNew, ForeignNew},
            i \in {ObjectInit, UserInit}}

ArgVals == {"a", "b"}
Args == SeqsUpTo(ArgVals, MaxArgs)
Kwargs == {<<>>, <<"k", "a">>}

NoOutcome == [kind |-> "none", val |-> Empty]
NoCall == [args |-> Empty, kwargs |-> Empty]

Warnings(t) == {i \in 1..Len(t) : t[i].ev = "warn"}

(***************************************************************************)
(* The deprecation engine as a state machine.                              *)
(***************************************************************************)
DepInit(argset) ==
    /\ dargs \in argset
    /\ decorator = NoClosure
    /\ target = NoObj
    /\ original = NoObj
    /\ artifact = NoResult
    /\ trace = <<>>
    /\ outcome = NoOutcome
    /\ expected = NoOutcome
    /\ call = NoCall
    /\ ncalls = 0
    /\ nwarns = 0

\* deprecated(since, message=..., ...)
CallDeprecated ==
    /\ decorator = NoClosure
    /\ decorator' = deprecated(dargs.since, dargs.message, dargs.name,
                               dargs.alternative, dargs.pending, dargs.obj_type)
    /\ UNCHANGED <<dargs, target, original, artifact, trace, outcome, expected,
                   call, ncalls, nwarns, docVars, regVars>>

\* the decorator applied to an object; a class is changed in place
ApplyDecorator ==
    /\ decorator.err = ""
    /\ artifact = NoResult
    /\ \E obj \in Targets :
          LET r == deprecate(decorator, obj) IN
          /\ artifact' = r
          /\ original' = obj
          /\ target' = IF obj.kind = "class" /\ r.err = "" THEN r.obj ELSE obj
    /\ UNCHANGED <<dargs, decorator, trace, outcome, expected, call, ncalls, nwarns,
                   docVars, regVars>>

\* a call of the wrapped function; a classmethod is called through its class
Invoke ==
    /\ artifact.err = ""
    /\ artifact.obj.kind \in {"function", "classmethod", "staticmethod"}
    /\ ncalls < MaxCalls
    /\ \E args \in Args, kwargs \in Kwargs :
          LET bound == IF artifact.obj.kind = "classmethod"
                       THEN <<"cls">> \o args ELSE args
              r == CallFunc(NoCtx, artifact.obj.func, bound, kwargs)
              e == CallFunc(NoCtx, original.func, bound, kwargs)
          IN  /\ trace' = r.trace
              /\ outcome' = r.outcome
              /\ expected' = e.outcome
              /\ call' = [args |-> bound, kwargs |-> kwargs]
              /\ nwarns' = nwarns + Cardinality(Warnings(r.trace))
    /\ ncalls' = ncalls + 1
    /\ UNCHANGED <<dargs, decorator, target, original, artifact, docVars, regVars>>

\* an instantiation of the decorated class
Instantiate ==
    /\ artifact.err = ""
    /\ artifact.obj.kind = "class"
    /\ ncalls < MaxCalls
    /\ \E args \in Args, kwargs \in Kwargs :
          LET r == type_call(target, args, kwargs)
              e == type_call(original, args, kwargs)
          IN  /\ trace' = r.trace
              /\ outcome' = r.outcome
              /\ expected' = e.outcome
              /\ call' = [args |-> args, kwargs |-> kwargs]
              /\ nwarns' = nwarns + Cardinality(Warnings(r.trace))
    /\ ncalls' = ncalls + 1
    /\ UNCHANGED <<dargs, decorator, target, original, artifact, docVars, regVars>>

(***************************************************************************)
(* add_common_docstring                                                    *)
(***************************************************************************)
\* __init__: the three attributes are stored as given
add_common_docstring(append, prepend, kwargs) ==
    [append |-> append, prepend |-> prepend, kwargs |-> kwargs]

\* faulty variant: the two fragments land on the wrong sides of the documentation
add_common_docstring_call_swapped(self, doc_in) ==
    LET doc0 == IF Truthy(doc_in) THEN doc_in ELSE Empty
        append == IF Truthy(self.append) THEN self.append ELSE Empty
        prepend == IF Truthy(self.prepend) THEN self.prepend ELSE Empty
        doc1 == IF Truthy(append) THEN append \o doc0 ELSE doc0
        doc2 == IF Truthy(prepend) THEN doc1 \o prepend ELSE doc1
        self2 == [self EXCEPT !.append = append, !.prepend = prepend]
    IN  IF DOMAIN self.kwargs = {}
        THEN [self |-> self2, doc |-> doc2, err |-> ""]
        ELSE IF CanFormat(doc2, self.kwargs)
             THEN [self |-> self2, doc |-> Format(doc2, self.kwargs), err |-> ""]
             ELSE [self |-> self2, doc |-> doc2, err |-> "KeyError"]

\* __call__(func), on the __doc__ of func: the composer and the documentation
\* afterwards, and the error str.format raised, if any
add_common_docstring_call(self, doc_in) ==
    LET doc0 == IF Truthy(doc_in) THEN doc_in ELSE Empty
        append == IF Truthy(self.append) THEN self.append ELSE Empty
        prepend == IF Truthy(self.prepend) THEN self.prepend ELSE Empty
        doc1 == IF Truthy(append) THEN doc0 \o append ELSE doc0
        doc2 == IF Truthy(prepend) THEN prepend \o doc1 ELSE doc1
        self2 == [self EXCEPT !.append = append, !.prepend = prepend]
    IN  IF DOMAIN self.kwargs = {}
        THEN [self |-> self2, doc |-> doc2, err |-> ""]
        ELSE IF CanFormat(doc2, self.kwargs)
             THEN [self |-> self2, doc |-> Format(doc2, self.kwargs), err |-> ""]
             ELSE [self |-> self2, doc |-> doc2, err |-> "KeyError"]

Substitutions ==
    UNION {[D -> {<<"X">>}] : D \in {{}, {"{x}"}, {"{x}", "{y}"}}}

Fragments == {None, Empty, <<"A">>, <<"B">>, <<"C", "{x}">>}

Composers ==
    {add_common_docstring(a, p, k) : a \in Fragments, p \in Fragments, k \in Substitutions}

Callables == {"f1", "f2", "f3"}

InitialDocs == [f \in Callables |->
                  CASE f = "f1" -> None
                    [] f = "f2" -> <<"Doc with ", "{y}", ".">>
                    [] OTHER -> <<"Plain doc.">>]

NoApplied == [func |-> "none", err |-> "", before |-> None]

DocInit(cs) ==
    /\ built \in cs
    /\ composer = built
    /\ docs = InitialDocs
    /\ applied = NoApplied
    /\ napplied = 0

\* the composer used as a decorator of callable f
ApplyComposer ==
    /\ napplied < MaxApply
    /\ \E f \in Callables :
          LET r == add_common_docstring_call(composer, docs[f]) IN
          /\ composer' = r.self
          /\ docs' = [docs EXCEPT ![f] = r.doc]
          /\ applied' = [func |-> f, err |-> r.err, before |-> docs[f]]
    /\ napplied' = napplied + 1
    /\ UNCHANGED <<built, depVars, regVars>>

(***************************************************************************)
(* The constants registry (sunpy.sun.constants): a fixed table of records, *)
(* each with a canonical name and aliases, in registration order.  Names,  *)
(* aliases and queries are Texts of one-character tokens.                  *)
(***************************************************************************)
Constant(name, aliases) == [name |-> name, aliases |-> aliases]

Registry ==
    <<Constant(<<"m", "a", "s", "s">>, {<<"M">>}),
      Constant(<<"r", "a", "d">>, {<<"R">>}),
      Constant(<<"a", "u">>, {<<"L">>})>>

Names == {Registry[i].name : i \in 1..Len(Registry)}

Keys == Names \cup UNION {Registry[i].aliases : i \in 1..Len(Registry)}

LowerChar(c) ==
    CASE c = "M" -> "m" [] c = "R" -> "r" [] c = "L" -> "l" [] c = "A" -> "a"
      [] OTHER -> c

Lower(s) == [i \in 1..Len(s) |-> LowerChar(s[i])]

Contains(s, sub) ==
    \E i \in 1..(Len(s) + 1) :
        i + Len(sub) - 1 <= Len(s) /\ SubSeq(s, i, i + Len(sub) - 1) = sub

\* faulty variant: the aliases are not searched
Matches_names_only(rec, x) == Contains(Lower(rec.name), Lower(x))

Matches(rec, x) ==
    \/ Contains(Lower(rec.name), Lower(x))
    \/ \E a \in rec.aliases : Contains(Lower(a), Lower(x))

RECURSIVE NamesMatching(_, _)
NamesMatching(recs, x) ==
    IF Len(recs) = 0 THEN <<>>
    ELSE (IF x = None \/ Matches(recs[1], x) THEN <<recs[1].name>> ELSE <<>>)
         \o NamesMatching(Tail(recs), x)

\* find(): every registered name; find(x): the names matching x
find(x) == NamesMatching(Registry, x)

NoConstant == Constant(Empty, {})

\* get(name): the record registered under a canonical name or an alias
get(n) ==
    IF n \in Keys
    THEN [err |-> "",
          rec |-> CHOOSE r \in {Registry[i] : i \in 1..Len(Registry)} :
                      r.name = n \/ n \in r.aliases]
    ELSE [err |-> "LookupError", rec |-> NoConstant]

QueryAlphabet == {"a", "m", "M", "L", "o"}

TestInputs == {<<"b", "o", "o">>, <<"c", "r", "a", "b">>, <<"f", "o", "o">>}

Queries == SeqsUpTo(QueryAlphabet, MaxQueryLen) \cup Keys \cup TestInputs

NoQuery == [op |-> "none", arg |-> None]
NoAnswer == [err |-> "", names |-> <<>>, rec |-> NoConstant]

RegInit == query = NoQuery /\ answer = NoAnswer

FindAll ==
    /\ query' = [op |-> "find", arg |-> None]
    /\ answer' = [err |-> "", names |-> find(None), rec |-> NoConstant]
    /\ UNCHANGED <<depVars, docVars>>

Find ==
    /\ \E x \in Queries :
          /\ query' = [op |-> "find", arg |-> x]
          /\ answer' = [err |-> "", names |-> find(x), rec |-> NoConstant]
    /\ UNCHANGED <<depVars, docVars>>

Get ==
    /\ \E n \in Queries :
          LET r == get(n) IN
          /\ query' = [op |-> "get", arg |-> n]
          /\ answer' = [err |-> r.err, names |-> <<>>, rec |-> r.rec]
    /\ UNCHANGED <<depVars, docVars>>

DepIdle == DepInit({DArgs(<<"1", ".", "0">>, Empty, Empty, Empty, FALSE, None)})

DocIdle == DocInit({add_common_docstring(None, None, <<>>)})

RegIdle == RegInit

InitDoc == DepIdle /\ DocInit(Composers) /\ RegIdle

NextDoc == ApplyComposer

SpecDoc == InitDoc /\ [][NextDoc]_vars

Init == DepInit(DeprecateArgs) /\ DocIdle /\ RegIdle

Next == CallDeprecated \/ ApplyDecorator \/ Invoke \/ Instantiate

Spec == Init /\ [][Next]_vars

InitVersion == DepInit(VersionArgs) /\ DocIdle /\ RegIdle

NextVersion == CallDeprecated

SpecVersion == InitVersion /\ [][NextVersion]_vars

InitRegistry == DepIdle /\ DocIdle /\ RegInit

NextRegistry == FindAll \/ Find \/ Get

SpecRegistry == InitRegistry /\ [][NextRegistry]_vars

(***************************************************************************)
(* Properties.                                                             *)
(***************************************************************************)
Decorated == artifact.err = ""

HardOrPending == IF dargs.pending THEN pending_warning_type ELSE warning_type

\* C1: every invocation of a decorated plain function emits exactly one
\* warning, of the pending category when pending is set and of the hard
\* category otherwise, before the body of the original runs, and the original
\* runs exactly once; the n-th invocation warns like the first.
C1_OneWarningPerCall ==
    (Decorated /\ original.kind = "function") =>
        /\ nwarns = ncalls
        /\ ncalls > 0 =>
              /\ Len(trace) = 2
              /\ trace[1].ev = "warn"
              /\ trace[1].what = HardOrPending
              /\ trace[2] = BodyEv(original.func.body, call.args, call.kwargs)

C1_Witness ==
    /\ Decorated
    /\ original.kind = "function"
    /\ dargs.pending
    /\ ncalls >= 2
    /\ nwarns = ncalls
    /\ trace[1].what = pending_warning_type

\* C2: a decorated function passes exactly the caller's positional and
\* keyword arguments to the original and returns what the original returns;
\* an error the original raises reaches the caller unchanged.
C2_SameBehaviour ==
    (Decorated /\ original.kind \in {"function", "classmethod", "staticmethod"}
       /\ ncalls > 0) =>
        /\ outcome = expected
        /\ outcome = Apply(NoCtx, original.func.body, call.args, call.kwargs)
        /\ \E i \in 1..Len(trace) :
              trace[i] = BodyEv(original.func.body, call.args, call.kwargs)

C2_Witness ==
    /\ Decorated
    /\ original.kind = "function"
    /\ original.func.body = "echo"
    /\ call.kwargs # <<>>
    /\ Len(call.args) > 0
    /\ outcome = Return(call.args \o <<"|">> \o call.kwargs)

WrappedEntry == IF original.new = ObjectNew THEN "init" ELSE "new"

\* C3: a decorated class has the wrapper on __init__ when its __new__ is
\* object.__new__ and on __new__ otherwise, never on both; every instantiation
\* emits exactly one warning, right before the original constructor entry
\* point runs, and yields what the undecorated class yields.
C3_ClassWarnsOnce ==
    (Decorated /\ original.kind = "class") =>
        /\ target.init.wrapped = (WrappedEntry = "init")
        /\ target.new.wrapped = (WrappedEntry = "new")
        /\ nwarns = ncalls
        /\ ncalls > 0 =>
              /\ Cardinality(Warnings(trace)) = 1
              /\ \A i \in Warnings(trace) :
                    /\ i < Len(trace)
                    /\ trace[i + 1].ev = "body"
                    /\ trace[i + 1].what = (IF WrappedEntry = "init"
                                            THEN original.init.body
                                            ELSE original.new.body)
              /\ outcome = expected

C3_Witness ==
    /\ Decorated
    /\ original.kind = "class"
    /\ original.new = UserNew
    /\ original.init = UserInit
    /\ ncalls > 0
    /\ outcome.kind = "return"
    /\ Cardinality(Warnings(trace)) = 1

SinceParts == Split(dargs.since, ".")

MajorMinor == Len(SinceParts) = 2 /\ IsInt(SinceParts[1]) /\ IsInt(SinceParts[2])

\* C4: for a since string "major.minor" with integer components the removal
\* version is (major, minor + 1) when minor equals 0 and (major + 1, 1)
\* otherwise.
C4_RemovalVersion ==
    (decorator # NoClosure /\ MajorMinor) =>
        /\ decorator.err = ""
        /\ decorator.removal_version =
              IF IntOf(SinceParts[2]) = 0
              THEN Str(IntOf(SinceParts[1])) \o <<".">> \o Str(IntOf(SinceParts[2]) + 1)
              ELSE Str(IntOf(SinceParts[1]) + 1) \o <<".">> \o Str(1)

Malformed ==
    \/ Len(SinceParts) < 2
    \/ ~IsInt(SinceParts[1])
    \/ ~IsInt(SinceParts[2])

\* C5: deprecated(since, ...) fails, and returns no decorator, for every
\* malformed since string: one without a '.', and one whose major or minor
\* component is not numeric.
C5_MalformedSinceFails ==
    (decorator # NoClosure /\ Malformed) => decorator.err # ""

\* C6: applying the decorator to a target that is neither a callable nor a
\* class fails at decoration time, with or without an explicit name.
C6_NonCallableRejected ==
    (artifact # NoResult /\ original.kind = "object") => artifact.err # ""

\* the message the wrapper of the artifact captured
ArtifactMessage ==
    CASE artifact.obj.kind # "class" -> artifact.obj.func.message
      [] artifact.obj.new.wrapped -> artifact.obj.new.message
      [] OTHER -> artifact.obj.init.message

UsedName == IF dargs.name # Empty THEN dargs.name ELSE get_function_name(original)

UsedType == obj_type_name_of(decorator, original)

CustomText == <<"Stop using ">> \o UsedName \o <<".">>

OrEmpty(s) == IF s = None THEN Empty ELSE s

\* C8: an application of the composer that returns leaves the callable with
\* the documentation prepend + original documentation + append, placeholders
\* substituted, where a missing fragment or documentation counts as empty;
\* this holds for each callable of a sequence of applications, whatever was
\* applied before.
C8_ComposedDoc ==
    (applied.func # "none" /\ applied.err = "") =>
        docs[applied.func] =
            Format(OrEmpty(built.prepend) \o OrEmpty(applied.before)
                   \o OrEmpty(built.append), built.kwargs)

C8_Witness ==
    /\ napplied >= 2
    /\ built.prepend = <<"A">>
    /\ built.append = <<"B">>
    /\ applied.func = "f1"
    /\ applied.before = None
    /\ applied.err = ""
    /\ docs["f1"] = <<"A", "B">>
    /\ docs["f3"] = <<"A", "Plain doc.", "B">>

Range(s) == {s[i] : i \in 1..Len(s)}

InNoNameOrAlias(x) ==
    \A i \in 1..Len(Registry) :
        /\ ~Contains(Lower(Registry[i].name), Lower(x))
        /\ \A a \in Registry[i].aliases : ~Contains(Lower(a), Lower(x))

\* C9: find(x) is a subset of find() for every x; for every registered key k
\* get(k) succeeds and find(k) returns at least one name; find(x) is empty
\* when x is contained, case-insensitively, in no registered name or alias.
C9_Registry ==
    /\ (query.op = "find" /\ query.arg # None) =>
          /\ Range(answer.names) \subseteq Range(find(None))
          /\ query.arg \in Keys => Len(answer.names) >= 1
          /\ InNoNameOrAlias(query.arg) => answer.names = <<>>
    /\ (query.op = "get" /\ query.arg \in Keys) =>
          /\ answer.err = ""
          /\ answer.rec.name = query.arg \/ query.arg \in answer.rec.aliases

C9_Witness ==
    /\ query.op = "find"
    /\ query.arg = <<"L">>
    /\ answer.names = <<<<"a", "u">>>>

\* C10: decorating a classmethod, a staticmethod or a bound method succeeds
\* and returns an artifact of the same kind around the warning forwarder; a
\* plain function is returned as a plain function.
C10_KindPreserved ==
    (artifact # NoResult /\ artifact.err # "KeyError"
       /\ original.kind \in method_types \cup {"function"}) =>
        /\ artifact.err = ""
        /\ artifact.obj.kind = original.kind
        /\ artifact.obj.func.wrapped
        /\ artifact.obj.func.body = original.func.body

====
